---- MODULE Spec2Model ----
(***************************************************************************)
(* A model of Chess/main.py: the evaluator evaluate_board, the alpha-beta  *)
(* search minimax and the move selector find_best_move.                    *)
(*                                                                         *)
(* The rules engine (python-chess) is an external library.  The model      *)
(* keeps of a position what main.py asks of it: the pieces of each colour  *)
(* and kind, the side to move, the number of legal moves (a move is its    *)
(* index in board.legal_moves), and whether the game is over and how.      *)
(* The answers for a position are chosen when the search first reaches it, *)
(* so every game tree within the bounds is explored.                       *)
(***************************************************************************)
EXTENDS Integers, Sequences, FiniteSets

-----------------------------------------------------------------------------
(* Bounds of the model. *)

\* Largest number of legal moves of a position.
MaxMoves == 2

\* Largest search depth; every game is over after MaxDepth plies.
MaxDepth == 2

\* Number of pawns a colour has at most where a search starts.
MaxPawns == 1

\* Largest number of pieces of one kind and colour in an evaluated position.
MaxCount == 1

-----------------------------------------------------------------------------
(* Program constants. *)

\* float("inf"): larger than every evaluation the model can reach.
INFINITY == 1000

\* best_move = None: moves are numbered from 1.
NoMove == 0

WHITE == "WHITE"
BLACK == "BLACK"
COLORS == {WHITE, BLACK}

PAWN == "PAWN"
KNIGHT == "KNIGHT"
BISHOP == "BISHOP"
ROOK == "ROOK"
QUEEN == "QUEEN"
KING == "KING"

\* chess.PIECE_TYPES, in the library's order.
PIECE_TYPES == <<PAWN, KNIGHT, BISHOP, ROOK, QUEEN, KING>>

KINDS == {PIECE_TYPES[k] : k \in 1..Len(PIECE_TYPES)}

piece_value ==
    [k \in KINDS |->
        CASE k = PAWN -> 1
          [] k = KNIGHT -> 3
          [] k = BISHOP -> 3
          [] k = ROOK -> 5
          [] k = QUEEN -> 9
          [] k = KING -> 0]

Other(c) == IF c = WHITE THEN BLACK ELSE WHITE

-----------------------------------------------------------------------------
(* Positions.  pieces[c][k] is len(board.pieces(k, c)). *)

\* CountTerm with the colours the other way round.
RECURSIVE CountTermSwapped(_, _)
CountTermSwapped(pieces, k) ==
    IF k = 0 THEN 0
    ELSE CountTermSwapped(pieces, k - 1)
         + (pieces[WHITE][PIECE_TYPES[k]] - pieces[BLACK][PIECE_TYPES[k]]) * 10

\* The 10 * (black count - white count) term, over the first k piece types.
RECURSIVE CountTerm(_, _)
CountTerm(pieces, k) ==
    IF k = 0 THEN 0
    ELSE CountTerm(pieces, k - 1)
         + (pieces[BLACK][PIECE_TYPES[k]] - pieces[WHITE][PIECE_TYPES[k]]) * 10

\* MaterialTerm without the branch for Black's pieces.
RECURSIVE MaterialTermWhiteOnly(_, _)
MaterialTermWhiteOnly(pieces, k) ==
    IF k = 0 THEN 0
    ELSE MaterialTermWhiteOnly(pieces, k - 1)
         + pieces[WHITE][PIECE_TYPES[k]] * piece_value[PIECE_TYPES[k]]

\* material_value over board.piece_map(), over the first k piece types.
RECURSIVE MaterialTerm(_, _)
MaterialTerm(pieces, k) ==
    IF k = 0 THEN 0
    ELSE MaterialTerm(pieces, k - 1)
         + pieces[WHITE][PIECE_TYPES[k]] * piece_value[PIECE_TYPES[k]]
         - pieces[BLACK][PIECE_TYPES[k]] * piece_value[PIECE_TYPES[k]]

evaluate_board(pieces) ==
    CountTerm(pieces, Len(PIECE_TYPES)) + MaterialTerm(pieces, Len(PIECE_TYPES))

\* The position with one piece of colour c and kind k taken off the board.
RemovePiece(pieces, c, k) ==
    [pieces EXCEPT ![c][k] = pieces[c][k] - 1]

\* The position with every White piece made Black and every Black piece White.
SwapColours(pieces) ==
    [c \in COLORS |-> pieces[Other(c)]]

-----------------------------------------------------------------------------
(* The rules engine, as main.py uses it. *)

\* board.push(move): the position after the move goes on the board's stack.
push(b, child) == Append(b, child)

\* board.pop(): the last move is taken back.
pop(b) == SubSeq(b, 1, Len(b) - 1)

\* The position the board shows.
Current(b) == b[Len(b)]

\* board.is_game_over()
is_game_over(pos) == pos.over # "no"

\* board.is_checkmate()
is_checkmate(pos) == pos.over = "checkmate"

\* The kinds of piece a move of the side to move can capture, or none.
NoCapture == "none"
Captures(pos) ==
    {NoCapture} \cup {k \in KINDS \ {KING} : pos.pieces[Other(pos.turn)][k] > 0}

\* The position reached by a move that captures cap, with the answers the
\* rules engine gives for it: its legal moves and how the game ended, if so.
AfterMove(pos, m, cap, over, n) ==
    [pieces |-> IF cap = NoCapture THEN pos.pieces
                ELSE RemovePiece(pos.pieces, Other(pos.turn), cap),
     turn   |-> Other(pos.turn),
     move   |-> m,
     over   |-> over,
     nmoves |-> n]

\* A position has no legal move exactly when it is checkmate or stalemate;
\* a game can also be over (a draw by material or by the move counters) with
\* legal moves left.
Statuses ==
    {<<"checkmate", 0>>, <<"stalemate", 0>>}
    \cup {<<o, n>> : o \in {"no", "draw"}, n \in 1..MaxMoves}

\* Neither side can mate: no pawn, rook or queen, and one minor piece at
\* most.  The rules engine counts such a game as over.
InsufficientMaterial(pieces) ==
    /\ \A c \in COLORS, k \in {PAWN, ROOK, QUEEN} : pieces[c][k] = 0
    /\ pieces[WHITE][KNIGHT] + pieces[WHITE][BISHOP]
         + pieces[BLACK][KNIGHT] + pieces[BLACK][BISHOP] <= 1

\* The answers fit the pieces: a game without mating material is drawn, and
\* the side that has given checkmate has a piece besides its king.
Legal(pos) ==
    /\ InsufficientMaterial(pos.pieces) => pos.over = "draw"
    /\ pos.over = "checkmate" =>
          \E k \in KINDS \ {KING} : pos.pieces[Other(pos.turn)][k] > 0

\* The same for a position the search does not go below, at the given depth
\* and level (moves from the root): its legal moves are never enumerated,
\* is_game_over is asked only if depth is not 0, and only for a position one
\* move from the root does the state keep how the game ended (children).
LeafStatuses(depth, level, pieces) ==
    IF level = 1
    THEN {<<"checkmate", 0>>, <<"stalemate", 0>>, <<"draw", 1>>, <<"no", 1>>}
    ELSE IF depth # 0 \/ InsufficientMaterial(pieces)
    THEN {<<"draw", 1>>}
    ELSE {<<"no", 1>>}

-----------------------------------------------------------------------------
(* minimax, lines 67-102: one frame per call that reaches its loop. *)

Max(a, b) == IF a >= b THEN a ELSE b
Min(a, b) == IF a <= b THEN a ELSE b

\* Lines 71-75 and 87: the locals of a call that is past the base case.
\* live: the call is executing its loop; it turns FALSE at a break.
\* ref: the value of the position by a minimax that never cuts off, kept
\* beside the call for comparison; it goes on over the moves a break skips.
NewFrame(depth, alpha, beta, maximizing_player, live) ==
    [depth             |-> depth,
     maximizing_player |-> maximizing_player,
     alpha             |-> IF maximizing_player THEN -INFINITY ELSE alpha,
     beta              |-> IF maximizing_player THEN beta ELSE INFINITY,
     best_score        |-> IF maximizing_player THEN -INFINITY ELSE INFINITY,
     best_move         |-> NoMove,
     i                 |-> 0,
     live              |-> live,
     ref               |-> IF maximizing_player THEN -INFINITY ELSE INFINITY]

\* Update with the cutoff test the wrong way round (alpha <= beta).
UpdateBreakEarly(f, score, move) ==
    IF f.maximizing_player
    THEN IF score > f.best_score
         THEN [f EXCEPT !.best_score = score,
                        !.best_move = move,
                        !.alpha = Max(f.alpha, score),
                        !.live = ~(Max(f.alpha, score) <= f.beta)]
         ELSE f
    ELSE IF score < f.best_score
         THEN [f EXCEPT !.best_score = score,
                        !.best_move = move,
                        !.beta = Min(f.beta, score),
                        !.live = ~(f.alpha <= Min(f.beta, score))]
         ELSE f

\* Update with a move that ties the incumbent replacing it (>=, <=).
UpdateOnTies(f, score, move) ==
    IF f.maximizing_player
    THEN IF score >= f.best_score
         THEN [f EXCEPT !.best_score = score,
                        !.best_move = move,
                        !.alpha = Max(f.alpha, score),
                        !.live = ~(Max(f.alpha, score) >= f.beta)]
         ELSE f
    ELSE IF score <= f.best_score
         THEN [f EXCEPT !.best_score = score,
                        !.best_move = move,
                        !.beta = Min(f.beta, score),
                        !.live = ~(f.alpha >= Min(f.beta, score))]
         ELSE f

\* Lines 81-85 and 93-97: the score of move has come back.
Update(f, score, move) ==
    IF f.maximizing_player
    THEN IF score > f.best_score
         THEN [f EXCEPT !.best_score = score,
                        !.best_move = move,
                        !.alpha = Max(f.alpha, score),
                        !.live = ~(Max(f.alpha, score) >= f.beta)]
         ELSE f
    ELSE IF score < f.best_score
         THEN [f EXCEPT !.best_score = score,
                        !.best_move = move,
                        !.beta = Min(f.beta, score),
                        !.live = ~(f.alpha >= Min(f.beta, score))]
         ELSE f

\* The unpruned value of the frame's position after a child of value v.
RefUpdate(f, v) ==
    [f EXCEPT !.ref = IF f.maximizing_player THEN Max(f.ref, v) ELSE Min(f.ref, v)]

\* Undo with the move left on the board when the call returned (None, None).
UndoUnlessNone(b, none) == IF none THEN b ELSE pop(b)

\* Line 79 and line 91: the move is taken back whatever the call returned.
Undo(b, none) == pop(b)

\* One pass of the loop body for move m, whose call returned score (and whose
\* unpruned value is v).  After a break only the reference value goes on.
LoopBody(f, m, score, v) ==
    [RefUpdate(IF f.live THEN Update(f, score, m) ELSE f, v) EXCEPT !.i = m]

\* CompareRaises with None compared like a number below every score: the
\* comparison is False and the loop goes on.
CompareIgnoresNone(none) == FALSE

\* Lines 81 and 93: score > best_score (score < best_score) raises TypeError
\* when the call returned (None, None), and line 100 catches it.
CompareRaises(none) == none

\* BaseCase without the test for the end of the game.
BaseCaseDepthOnly(pos, depth) == depth = 0

\* Line 68.
BaseCase(pos, depth) == depth = 0 \/ is_game_over(pos)

\* What a call returns: (score, move), or (None, None) after a failure.
Returned(score, move) == [score |-> score, move |-> move, none |-> FALSE]
NoneNone == [score |-> 0, move |-> NoMove, none |-> TRUE]

\* TerminalCorrection without the test for checkmate.
TerminalCorrectionNoMove(pos, r) ==
    IF r.move = NoMove
    THEN Returned(IF pos.turn = WHITE THEN -INFINITY ELSE INFINITY, NoMove)
    ELSE r

\* Lines 141-148 of find_best_move.
TerminalCorrection(pos, r) ==
    IF r.move = NoMove /\ is_checkmate(pos)
    THEN Returned(IF pos.turn = WHITE THEN -INFINITY ELSE INFINITY, NoMove)
    ELSE r

\* The break of line 85 (97) was taken in going from f to g with moves left.
Broke(f, g, n) == f.live /\ ~g.live /\ g.i < n

\* Lines 130-137 of find_best_move.
RootMaximizing(pos) == pos.turn = BLACK
RootAlpha(pos) == IF pos.turn = BLACK THEN -INFINITY ELSE INFINITY
RootBeta(pos) == IF pos.turn = BLACK THEN INFINITY ELSE -INFINITY

-----------------------------------------------------------------------------
(* State. *)

VARIABLES
    board,      \* the chess.Board: the root position and those pushed on it
    stack,      \* the minimax calls in progress, outermost first
    pc,         \* "idle", "search", "done"; "eval", "evaluated" for the
                \* evaluator alone
    call,       \* the call made: entry point, depth, maximizing_player, and
                \* the board as it was
    result,     \* what the call returned
    errors,     \* how many calls have printed "An error occurred" (line 101)
    cut,        \* a break of line 85 (97) has skipped a move in this search
    children    \* per root move tried so far: the unpruned value of the
                \* position it leads to, and whether that position is checkmate

vars == <<board, stack, pc, call, result, errors, cut, children>>

failed == errors > 0

\* A call has returned (None, None) and the comparison of line 81 (93) has
\* raised in its caller: the calls in progress return one after the other.
Unwinding == failed /\ CompareRaises(failed)

Pieces(wp, bp) ==
    [c \in COLORS |->
        [k \in KINDS |->
            IF k = KING THEN 1
            ELSE IF k = PAWN THEN (IF c = WHITE THEN wp ELSE bp)
            ELSE 0]]

\* The positions a search starts from: the kings and up to MaxPawns pawns a
\* side.
RootPositions ==
    {pos \in {[pieces |-> Pieces(wp, bp), turn |-> t, move |-> NoMove,
               over |-> s[1], nmoves |-> s[2]] :
                 wp \in 0..MaxPawns, bp \in 0..MaxPawns, t \in COLORS,
                 s \in Statuses} :
        Legal(pos)}

NoCall == [entry |-> "none", depth |-> 0, maximizing_player |-> FALSE,
           board |-> <<>>]

Init ==
    /\ board \in {<<p>> : p \in RootPositions}
    /\ stack = <<>>
    /\ pc = "idle"
    /\ call = NoCall
    /\ result = NoneNone
    /\ errors = 0
    /\ cut = FALSE
    /\ children = <<>>

Depths == (-1)..MaxDepth

\* What the caller gets once the outermost minimax has returned r: r itself
\* from a direct call, r after lines 141-148 from find_best_move.
Deliver(entry, pos, r) ==
    IF entry = "find_best_move" THEN TerminalCorrection(pos, r) ELSE r

\* minimax(board, depth, alpha, beta, maximizing_player) up to its loop:
\* the base case returns at once (fail: evaluate_board or is_game_over
\* raised, lines 100-102), anything else opens a frame.
Enter(entry, depth, alpha, beta, maximizing_player, fail) ==
    LET pos == Current(board) IN
    /\ call' = [entry |-> entry, depth |-> depth,
                maximizing_player |-> maximizing_player, board |-> board]
    /\ UNCHANGED <<board, cut, children>>
    /\ IF fail
       THEN /\ result' = Deliver(entry, pos, NoneNone)
            /\ errors' = errors + 1
            /\ pc' = "done"
            /\ stack' = <<>>
       ELSE IF BaseCase(pos, depth)
       THEN /\ result' = Deliver(entry, pos,
                                  Returned(evaluate_board(pos.pieces), NoMove))
            /\ pc' = "done"
            /\ UNCHANGED <<stack, errors>>
       ELSE /\ stack' = <<NewFrame(depth, alpha, beta, maximizing_player, TRUE)>>
            /\ pc' = "search"
            /\ UNCHANGED <<result, errors>>


\* A direct call minimax(board, depth, -INFINITY, INFINITY, maximizing_player).
MinimaxCall ==
    /\ pc = "idle"
    /\ \E depth \in 0..MaxDepth, mp \in BOOLEAN, fail \in BOOLEAN :
         Enter("minimax", depth, -INFINITY, INFINITY, mp, fail)

\* find_best_move(board, depth), lines 130-139, and lines 141-148 when the
\* search returns at once.
FindBestMove ==
    /\ pc = "idle"
    /\ \E depth \in Depths, fail \in BOOLEAN :
         LET pos == Current(board)
         IN Enter("find_best_move", depth, RootAlpha(pos), RootBeta(pos),
                  RootMaximizing(pos), fail)

Top == stack[Len(stack)]

SetTop(f) == [stack EXCEPT ![Len(stack)] = f]

\* The root's record of a move just tried.
Tried(v, mate) ==
    IF Len(stack) = 1
    THEN Append(children, [value |-> v, checkmate |-> mate])
    ELSE children

\* Lines 77-85 (89-97) for a move whose call returns from its base case:
\* the position after it is at depth 0, or the game is over there.
LeafMove ==
    /\ pc = "search" /\ ~Unwinding
    /\ LET f == Top
           pos == Current(board)
           m == Top.i + 1
       IN /\ f.i < pos.nmoves
          /\ \E cap \in Captures(pos) :
             \E s \in LeafStatuses(f.depth - 1, Len(stack),
                                   AfterMove(pos, m, cap, "no", 1).pieces) :
               LET child == AfterMove(pos, m, cap, s[1], s[2])
                   score == evaluate_board(child.pieces)
                   g == LoopBody(f, m, score, score)
               IN /\ Legal(child)
                  /\ BaseCase(child, f.depth - 1)
                  /\ board' = Undo(push(board, child), FALSE)
                  /\ stack' = SetTop(g)
                  /\ cut' = (cut \/ Broke(f, g, pos.nmoves))
                  /\ children' = Tried(score, is_checkmate(child))
    /\ UNCHANGED <<pc, call, result, errors>>

\* Lines 77-79 (89-91) for a move whose call fails: evaluate_board or a query
\* of the rules engine raised in it and it returned (None, None), line 102.
\* The move is taken back; the comparison of line 81 (93) then raises in this
\* frame, which returns (None, None) in its turn (Return, Finish).
FailedMove ==
    /\ pc = "search" /\ ~Unwinding
    /\ LET f == Top
           pos == Current(board)
           m == Top.i + 1
       IN /\ f.i < pos.nmoves
          /\ f.live
          /\ \E cap \in Captures(pos) :
               LET pieces == AfterMove(pos, m, cap, "no", 1).pieces
                   over == IF InsufficientMaterial(pieces) THEN "draw" ELSE "no"
               IN board' = Undo(push(board, AfterMove(pos, m, cap, over, 1)), TRUE)
    /\ stack' = IF CompareRaises(TRUE) THEN stack
                ELSE SetTop([Top EXCEPT !.i = Top.i + 1])
    /\ errors' = errors + 1
    /\ UNCHANGED <<pc, call, result, cut, children>>

\* Lines 77-78 (89-90) for a move whose call reaches its loop.  A game is
\* over after MaxDepth plies at the latest.
Descend ==
    /\ pc = "search" /\ ~Unwinding
    /\ Len(board) < MaxDepth
    /\ LET f == Top
           pos == Current(board)
           m == Top.i + 1
       IN /\ f.i < pos.nmoves
          /\ \E cap \in Captures(pos), n \in 1..MaxMoves :
               LET child == AfterMove(pos, m, cap, "no", n) IN
               /\ Legal(child)
               /\ ~BaseCase(child, f.depth - 1)
               /\ board' = push(board, child)
               /\ stack' = Append(stack,
                                  NewFrame(f.depth - 1, f.alpha, f.beta,
                                           ~f.maximizing_player, f.live))
    /\ UNCHANGED <<pc, call, result, errors, cut, children>>

\* The top call is through with its moves, or a call below it has failed.
Finished == Unwinding \/ Top.i = Current(board).nmoves

\* Line 99 (or line 102) of an inner call, then lines 79-85 (91-97) of its
\* caller.
Return ==
    /\ pc = "search"
    /\ Len(stack) > 1
    /\ Finished
    /\ LET g == Top
           f == stack[Len(stack) - 1]
           m == f.i + 1
           h == LoopBody(f, m, g.best_score, g.ref)
           rest == SubSeq(stack, 1, Len(stack) - 1)
       IN /\ board' = Undo(board, Unwinding)
          /\ stack' = IF Unwinding THEN rest ELSE [rest EXCEPT ![Len(rest)] = h]
          /\ errors' = IF Unwinding THEN errors + 1 ELSE errors
          /\ cut' = (cut \/ (~Unwinding /\ Broke(f, h, board[Len(board) - 1].nmoves)))
          /\ children' = IF Unwinding \/ Len(stack) # 2 THEN children
                         ELSE Append(children, [value |-> g.ref, checkmate |-> FALSE])
    /\ UNCHANGED <<pc, call, result>>

\* Line 99 (or line 102) of the outermost call; for find_best_move, lines
\* 141-148 after it.
Finish ==
    /\ pc = "search"
    /\ Len(stack) = 1
    /\ Finished
    /\ LET r == IF Unwinding THEN NoneNone
                ELSE Returned(Top.best_score, Top.best_move)
       IN result' = Deliver(call.entry, Current(board), r)
    /\ errors' = IF Unwinding THEN errors + 1 ELSE errors
    /\ pc' = "done"
    /\ stack' = <<>>
    /\ UNCHANGED <<board, call, cut, children>>

Next ==
    \/ MinimaxCall \/ FindBestMove
    \/ LeafMove \/ FailedMove \/ Descend \/ Return \/ Finish

Spec == Init /\ [][Next]_vars

-----------------------------------------------------------------------------
(* The evaluator alone, over every position with a king and up to MaxCount *)
(* pieces of each other kind a side.                                       *)

EvalPieces ==
    {p \in [COLORS -> [KINDS -> 0..MaxCount]] : \A c \in COLORS : p[c][KING] = 1}

InitEval ==
    /\ board \in {<<[pieces |-> p, turn |-> WHITE, move |-> NoMove,
                     over |-> IF InsufficientMaterial(p) THEN "draw" ELSE "no",
                     nmoves |-> 1]>> : p \in EvalPieces}
    /\ stack = <<>>
    /\ pc = "eval"
    /\ call = NoCall
    /\ result = NoneNone
    /\ errors = 0
    /\ cut = FALSE
    /\ children = <<>>

\* evaluate_board(board)
EvaluateBoard ==
    /\ pc = "eval"
    /\ result' = Returned(evaluate_board(Current(board).pieces), NoMove)
    /\ pc' = "evaluated"
    /\ UNCHANGED <<board, stack, call, errors, cut, children>>

NextEval == EvaluateBoard

EvalSpec == InitEval /\ [][NextEval]_vars

-----------------------------------------------------------------------------
(* What the claims speak of. *)

\* The position the call was made on.
Root == call.board[1]

\* The unpruned values of the positions the root's moves lead to, in the
\* order of board.legal_moves.
Values == [k \in 1..Len(children) |-> children[k].value]

RECURSIVE MaxOver(_, _)
MaxOver(vals, k) == IF k = 1 THEN vals[1] ELSE Max(MaxOver(vals, k - 1), vals[k])

RECURSIVE MinOver(_, _)
MinOver(vals, k) == IF k = 1 THEN vals[1] ELSE Min(MinOver(vals, k - 1), vals[k])

\* The value of the root by a minimax of the call's depth that never cuts off.
BruteForce(maximizing_player) ==
    IF BaseCase(Root, call.depth) THEN evaluate_board(Root.pieces)
    ELSE IF maximizing_player THEN MaxOver(Values, Len(Values))
    ELSE MinOver(Values, Len(Values))

\* The first move whose position has the unpruned value v, NoMove if none.
FirstWith(v) ==
    IF \E k \in 1..Len(Values) : Values[k] = v
    THEN CHOOSE k \in 1..Len(Values) :
            Values[k] = v /\ \A j \in 1..(k - 1) : Values[j] # v
    ELSE NoMove

Infinite(score) == score = INFINITY \/ score = -INFINITY

\* The call has returned and no collaborator call failed in it.
Done(entry) == pc = "done" /\ call.entry = entry /\ ~failed

-----------------------------------------------------------------------------
(* The claims. *)

\* C1: a direct call minimax(board, depth, -INFINITY, INFINITY,
\* maximizing_player), for depth 0..MaxDepth and both values of
\* maximizing_player, returns the score of the minimax of the same depth that
\* never cuts off.
C1_PruningEquivalence ==
    Done("minimax") => result.score = BruteForce(call.maximizing_player)

\* C1 after a search of depth 2 in which a break skipped a move.
C1_Witness ==
    /\ Done("minimax") /\ cut /\ call.depth = 2
    /\ Len(children) = 2
    /\ result.score = BruteForce(call.maximizing_player)

\* C2: for a position that is not game over and depth >= 1, find_best_move
\* returns the maximum (Black to move) or the minimum (White to move) of the
\* values of the positions its legal moves lead to, with a move that attains
\* it.
C2_BestValue ==
    Done("find_best_move") /\ call.depth >= 1 /\ ~is_game_over(Root)
    => /\ result.score = BruteForce(RootMaximizing(Root))
       /\ result.move # NoMove
       /\ Values[result.move] = result.score

\* C3: a call leaves the board as it found it.  While the search runs the
\* board holds the moves of the calls in progress and no other; when the
\* outermost call has returned - normally, after a cutoff or after a failure -
\* the board is the board the call was made on.
C3_UndoIntegrity ==
    /\ pc = "search" => Len(board) = Len(stack) /\ <<board[1]>> = call.board
    /\ pc = "done" => board = call.board

\* C3 after a failure two calls below the outermost one: the failing call and
\* the two calls around it have each returned (None, None).
C3_Witness ==
    pc = "done" /\ errors = 3 /\ result.none /\ board = call.board

\* C4: Black is the maximizing side of find_best_move, and taking a White
\* piece of any kind off the board strictly raises evaluate_board, taking a
\* Black piece off strictly lowers it.
C4_SignConvention ==
    pc = "evaluated" =>
        /\ \A t \in COLORS : RootMaximizing([turn |-> t]) <=> t = BLACK
        /\ \A c \in COLORS, k \in KINDS :
              LET pieces == Current(board).pieces IN
              pieces[c][k] > 0 =>
                 IF c = WHITE
                 THEN evaluate_board(RemovePiece(pieces, c, k)) > result.score
                 ELSE evaluate_board(RemovePiece(pieces, c, k)) < result.score

\* C4 on a position with both queens: without the White queen the score is
\* higher by one.
C4_Witness ==
    LET pieces == Current(board).pieces IN
    /\ pc = "evaluated"
    /\ pieces[WHITE][QUEEN] > 0 /\ pieces[BLACK][QUEEN] > 0
    /\ evaluate_board(RemovePiece(pieces, WHITE, QUEEN)) = result.score + 1

\* C5: when the side to move can give checkmate in one move, find_best_move
\* at depth >= 1 returns a move and an infinite score.
C5_MateInOne ==
    /\ Done("find_best_move") /\ call.depth >= 1 /\ ~is_game_over(Root)
    /\ \E k \in 1..Len(children) : children[k].checkmate
    => result.move # NoMove /\ Infinite(result.score)

\* C6: with no failure and depth >= 0, find_best_move returns an infinite
\* score exactly when the position is checkmate, and then (-INFINITY, None)
\* with White to move and (INFINITY, None) with Black to move.
C6_InfiniteOnlyForCheckmate ==
    Done("find_best_move") /\ call.depth >= 0
    => /\ Infinite(result.score) <=> is_checkmate(Root)
       /\ is_checkmate(Root) =>
             result = Returned(IF Root.turn = WHITE THEN -INFINITY ELSE INFINITY,
                               NoMove)

\* C6 on a checkmated White at depth 2.
C6_Witness ==
    /\ Done("find_best_move") /\ call.depth = 2
    /\ is_checkmate(Root) /\ Root.turn = WHITE
    /\ result = Returned(-INFINITY, NoMove)

\* C7: for a stalemate, find_best_move at depth >= 0 returns
\* (evaluate_board(position), None).
C7_Stalemate ==
    Done("find_best_move") /\ call.depth >= 0 /\ Root.over = "stalemate"
    => result = Returned(evaluate_board(Root.pieces), NoMove)

\* C7 on a stalemate with a pawn more for Black, at depth 2.
C7_Witness ==
    /\ Done("find_best_move") /\ call.depth = 2 /\ Root.over = "stalemate"
    /\ evaluate_board(Root.pieces) = 9
    /\ result = Returned(9, NoMove)

\* C8: find_best_move with a negative depth is rejected: no search is
\* started, no move is applied, and the caller gets an error, not a result.
C8_InvalidDepth ==
    call.entry = "find_best_move" /\ call.depth < 0
    => /\ pc = "done"
       /\ cut = FALSE /\ children = <<>>
       /\ board = call.board
       /\ result.none

\* C9: evaluate_board of the position with the colours swapped is the
\* negation of evaluate_board of the position.
C9_SignInvariant ==
    pc = "evaluated" =>
        evaluate_board(SwapColours(Current(board).pieces)) = -result.score

\* C9 on a position that is not its own mirror image.
C9_Witness ==
    LET pieces == Current(board).pieces IN
    /\ pc = "evaluated"
    /\ pieces[WHITE][ROOK] > pieces[BLACK][ROOK]
    /\ result.score < 0
    /\ evaluate_board(SwapColours(pieces)) = -result.score

\* C10: for a position that is not game over and depth >= 1, the move a
\* direct call of minimax returns is the first move whose position has an
\* unpruned value equal to the returned score.
C10_TieBreak ==
    Done("minimax") /\ call.depth >= 1 /\ ~is_game_over(Root)
    => result.move # NoMove /\ result.move = FirstWith(result.score)

\* C10 when a break below the root skipped a move and the root's second move
\* ties its first.
C10_Witness ==
    /\ Done("minimax") /\ call.depth = 2 /\ cut
    /\ Len(children) = 2 /\ Values[1] = Values[2]
    /\ result.move = 1 /\ result.score = Values[1]

\* C11: a failure of evaluate_board or of a query of the rules engine, at
\* whatever level, makes the outermost minimax return (None, None): the
\* failing call returns (None, None), and from then on every step is a call
\* in progress returning (None, None) after its move is taken back, with no
\* further move tried and no score returned.
C11_FailureSentinel ==
    /\ [](pc = "done" /\ failed /\ (call.entry = "minimax" \/ ~is_checkmate(Root))
          => result = NoneNone)
    /\ [][failed =>
            /\ Len(stack') = Len(stack) - 1
            /\ errors' = errors + 1
            /\ Len(board') = Len(stack) - (IF Len(stack) > 1 THEN 1 ELSE 0)
            /\ children' = children
            /\ pc' = "done" => result'.none]_vars

\* C11 after the root's first move was searched and a call two levels below
\* the root failed in its second: three calls have returned (None, None).
C11_Witness ==
    /\ pc = "done" /\ call.entry = "minimax" /\ call.depth = 2
    /\ Len(children) = 1 /\ errors = 3
    /\ result = NoneNone

====
